---- MODULE Spec2Model ----
(***************************************************************************)
(* Model of runtime/purescript_rc.h: the reference counted boxed value     *)
(* (class boxed, a std::shared_ptr<void>), the forward reference cell      *)
(* (class boxed_r, a shared_ptr to a heap allocated boxed), and the        *)
(* box / unbox / array_length helpers.                                     *)
(*                                                                         *)
(* Three specifications:                                                   *)
(*   Spec      the single threaded heap of payloads and the handles to it  *)
(*   SpecInt   the narrowing constructors boxed(long), boxed(unsigned long)*)
(*   SpecConc  several threads copying and destroying handles to one       *)
(*             payload (the shared_ptr control block)                      *)
(***************************************************************************)
EXTENDS Integers, Sequences, FiniteSets, TLC

\* ---------------------------------------------------------------- bounds
MaxObj == 3          \* cells make_shared can still hand out
MaxRoots == 2        \* boxed variables in scope
MaxRefs == 2         \* boxed_r variables in scope
MaxElems == 1        \* longest array the ownership specification builds
MaxLen == 3          \* longest array the indexing specification builds
MaxThreads == 3      \* threads sharing one payload
MaxOwn == 4          \* handles one thread holds at a time

Objs == 1..MaxObj
Handles == 0..MaxObj                 \* 0 is the empty shared_ptr (nullptr)
Roots == 1..MaxRoots                 \* local variables of type boxed
Refs == 1..MaxRefs                   \* local variables of type boxed_r
Keys == {"x", "y"}                   \* string literal keys of dict_t
IntVals == {0, 1, 41}                \* int payloads the client constructs
Modes == {"debug", "release"}        \* NDEBUG undefined / defined

VARIABLES heap, root, rroot, ret,
          n64, ctor, mode, res,
          ccnt, cfreed, own, tpc

vars == <<heap, root, rroot, ret, n64, ctor, mode, res, ccnt, cfreed, own, tpc>>
heapVars == <<heap, root, rroot, ret>>
intVars == <<n64, ctor, mode, res>>
concVars == <<ccnt, cfreed, own, tpc>>

\* ------------------------------------------------------------- payloads
\* One heap cell: the control block (cnt) and the payload made by
\* std::make_shared<T>.  st records allocation, frees counts deallocations.
EmptyObj ==
  [st |-> "unalloc", kind |-> "none", cnt |-> 0, frees |-> 0,
   num |-> 0, text |-> "", elems |-> <<>>, ents |-> <<>>,
   inner |-> 0, code |-> "", cap |-> 0]

NewObj(k) == [EmptyObj EXCEPT !.st = "live", !.kind = k, !.cnt = 1]

\* boxed(const int n)
boxed_int(n) == [NewObj("int") EXCEPT !.num = n]
\* Fault model: a double taken by the int overload
boxed_double_as_int(n) == [NewObj("double") EXCEPT !.num = (n \div 10) * 10]
\* boxed(const double n); doubles are written as tenths
boxed_double(n) == [NewObj("double") EXCEPT !.num = n]
\* boxed(const bool b)
boxed_bool(b) == [NewObj("bool") EXCEPT !.num = IF b THEN 1 ELSE 0]
\* boxed(const char s[]), boxed(string&&), boxed(const string&)
boxed_string(s) == [NewObj("string") EXCEPT !.text = s]
\* boxed(array_t&&), boxed(const array_t&): l is the deque of handles
boxed_array(l) == [NewObj("array") EXCEPT !.elems = l]
\* boxed(dict_t&&), boxed(const dict_t&): m is the list of key/value pairs
boxed_dict(m) == [NewObj("dict") EXCEPT !.ents = m]
\* boxed(const T& f) for a callable boxed(const boxed&): code names the
\* lambda's body, c is the handle its closure captured (0: none)
boxed_fn(code, c) == [NewObj("fn") EXCEPT !.code = code, !.cap = c]
\* boxed(const T& f) for a callable boxed(void)
boxed_eff_fn(code, c) == [NewObj("eff_fn") EXCEPT !.code = code, !.cap = c]
\* boxed_r(): make_shared<boxed>() holds a default constructed (empty) boxed
boxed_r_new == [NewObj("slot") EXCEPT !.inner = 0]

\* The handles a payload holds, in destruction order.
Children(obj) ==
  obj.elems \o [i \in 1..Len(obj.ents) |-> obj.ents[i].h] \o <<obj.inner, obj.cap>>

CountIn(s, o) == Cardinality({i \in DOMAIN s : s[i] = o})

\* ------------------------------------------------- shared_ptr operations
\* Fault model: a copy that shares the payload without counting itself
AddRefNoCount(H, h) == H

\* Copy construction of a handle: the use count goes up by one.
AddRef(H, h) == IF h = 0 THEN H ELSE [H EXCEPT ![h].cnt = @ + 1]

\* Fault model: a drop that also gives up on a reference the payload holds to itself
DecCountTwice(c) == c - 2

\* The use count after one handle is dropped.
DecCount(c) == c - 1

RECURSIVE Release(_, _), ReleaseAll(_, _)
\* Destruction of a handle: the count goes down by one; at zero the payload
\* is destroyed (its own handles are released) and the cell is deallocated.
\* Releasing a handle to a cell that is not live is a second deallocation.
Release(H, h) ==
  IF h = 0 THEN H
  ELSE IF H[h].st # "live" THEN [H EXCEPT ![h].frees = IF @ < 2 THEN @ + 1 ELSE @]
  ELSE IF DecCount(H[h].cnt) > 0 THEN [H EXCEPT ![h].cnt = DecCount(@)]
  ELSE ReleaseAll([H EXCEPT ![h] = [EmptyObj EXCEPT !.st = "freed",
                                                    !.frees = H[h].frees + 1]],
                  Children(H[h]))

ReleaseAll(H, s) ==
  IF s = <<>> THEN H ELSE ReleaseAll(Release(H, Head(s)), Tail(s))

\* shared_ptr copy assignment of handle new over a cell holding old:
\* shared_ptr(new).swap(cell), so new is retained before old is released.
Rebind(H, old, new) == Release(AddRef(H, new), old)

\* make_shared: the next cell never used before.
HasFree(H) == \E o \in Objs : H[o].st = "unalloc"
NextFree(H) == CHOOSE o \in Objs : H[o].st = "unalloc" /\ \A p \in Objs : p < o => H[p].st # "unalloc"
Alloc(H, obj) == [H EXCEPT ![NextFree(H)] = obj]

Live(H, h) == h # 0 /\ H[h].st = "live"
IsKind(H, h, k) == Live(H, h) /\ H[h].kind = k

\* What the last operation returned: st is "ok", "throw" (an exception left
\* the operation) or "ub" (the behaviour was undefined, v and h are arbitrary).
Ret(op, st, x, y, v, h) == [op |-> op, st |-> st, x |-> x, y |-> y, v |-> v, h |-> h]


UBRets(op, x, y) ==
  {Ret(op, "crash", x, y, 0, 0)} \cup {Ret(op, "ub", x, y, 0, h) : h \in Handles}

\* ------------------------------------------------------- unbox, box
\* unbox<T>(const boxed& b): *static_cast<const T*>(b.get()), no tag check
unbox_int(H, h) == H[h].num
unbox_double(H, h) == H[h].num
unbox_bool(H, h) == H[h].num # 0
unbox_string(H, h) == H[h].text
unbox_array(H, h) == H[h].elems
unbox_dict(H, h) == H[h].ents

\* array_length(a): unbox<array_t>(a).size()
array_length(H, h) == Len(unbox_array(H, h))

\* The payload the client hands to a constructor or to box<T>.
IntInputs(ns) == {[kind |-> "int", num |-> n, text |-> ""] : n \in ns}
ScalarInputs ==
  IntInputs(IntVals)
  \cup {[kind |-> "double", num |-> 15, text |-> ""]}
  \cup {[kind |-> "bool", num |-> b, text |-> ""] : b \in {0, 1}}
  \cup {[kind |-> "string", num |-> 0, text |-> "ab"]}

\* Overload resolution among the scalar constructors; box<T>(args) is
\* make_shared<T>(args) converted to boxed, the same cell.
box(p) ==
  CASE p.kind = "int" -> boxed_int(p.num)
    [] p.kind = "double" -> boxed_double(p.num)
    [] p.kind = "bool" -> boxed_bool(p.num = 1)
    [] p.kind = "string" -> boxed_string(p.text)

\* ----------------------------------------------- string_literal_dict_t
DictFind(m, k) ==
  IF \E i \in 1..Len(m) : m[i].k = k
  THEN CHOOSE i \in 1..Len(m) : m[i].k = k /\ \A j \in 1..(i - 1) : m[j].k # k
  ELSE 0

\* dict_t::operator[](key) const: the key has to exist
DictIndexConst(m, k) == IF DictFind(m, k) # 0 THEN m[DictFind(m, k)].h ELSE -1

\* dict_t::operator[](key): inserts an empty entry when the key is absent
DictIndexMut(m, k) == IF DictFind(m, k) # 0 THEN m ELSE Append(m, [k |-> k, h |-> 0])

\* ----------------------------------------------------- boxed indexing
\* boxed::operator[](const char key[]) const
index_key_const(H, o, k) == DictIndexConst(unbox_dict(H, o), k)

\* Fault model: the mutable overload forwarding to the const lookup
index_key_mut_const(H, o, k) == H

\* boxed::operator[](const char key[]): the dict after the lookup
index_key_mut(H, o, k) == [H EXCEPT ![o].ents = DictIndexMut(@, k)]

\* deque::at(size_type): the int index converts to size_type, a negative
\* one to a value above every size
AtInRange(idx, len) == idx >= 0 /\ idx < len

\* Fault model: the unchecked operator[] compiled into every build
index_const_unchecked(H, o, idx, md) ==
  IF AtInRange(idx, array_length(H, o)) THEN [st |-> "ok", h |-> unbox_array(H, o)[idx + 1]]
  ELSE [st |-> "ub", h |-> 0]

\* boxed::operator[](const int index) const, in the build given by md:
\* "ok" and the element, "throw" (std::out_of_range), or "ub"
index_const(H, o, idx, md) ==
  IF AtInRange(idx, array_length(H, o)) THEN [st |-> "ok", h |-> unbox_array(H, o)[idx + 1]]
  ELSE IF md = "debug" THEN [st |-> "throw", h |-> 0]
  ELSE [st |-> "ub", h |-> 0]

\* boxed::operator[](const int index)
index_mut(H, o, idx, md) ==
  IF AtInRange(idx, array_length(H, o)) THEN [st |-> "ok", h |-> unbox_array(H, o)[idx + 1]]
  ELSE IF md = "debug" THEN [st |-> "throw", h |-> 0]
  ELSE [st |-> "ub", h |-> 0]

\* --------------------------------------------------------- invocation
UBRes == [st |-> "ub", v |-> 0, h |-> 0]
OkInt(v) == [st |-> "ok", v |-> v, h |-> 0]
OkHandle(h) == [st |-> "ok", v |-> 0, h |-> h]

RECURSIVE LambdaBody(_, _, _), boxed_r_call(_, _, _)
\* boxed::operator()(const boxed& arg)
boxed_call(H, h, k) == IF IsKind(H, h, "fn") THEN LambdaBody(H, h, k) ELSE UBRes

\* Fault model: a forward reference that casts its own pointer, the slot, to fn_t
boxed_r_call_no_slot(H, s, k) == boxed_call(H, s, k)

\* The callables the client wraps, applied to the int k the argument holds:
\*   add1  [](const boxed& n) { return unbox<int>(n) + 1; }
\*   rec   [r](const boxed& n) { int k = unbox<int>(n);
\*                               return k <= 0 ? 0 : k + unbox<int>(r(k - 1)); }
\*         with r a captured boxed_r
LambdaBody(H, f, k) ==
  IF H[f].code = "add1" THEN OkInt(k + 1)
  ELSE IF k <= 0 THEN OkInt(0)
  ELSE LET r == boxed_r_call(H, H[f].cap, k - 1)
       IN  IF r.st = "ok" THEN OkInt(k + r.v) ELSE UBRes

\* boxed_r::operator()(const boxed& arg): the slot's boxed, then its fn_t
boxed_r_call(H, s, k) ==
  IF ~IsKind(H, s, "slot") THEN UBRes
  ELSE LET b == H[s].inner
       IN  IF IsKind(H, b, "fn") THEN LambdaBody(H, b, k) ELSE UBRes

\* The thunk the client wraps: get  [c]() { return c; }  with c a captured boxed
ThunkBody(H, f) == OkHandle(H[f].cap)

\* boxed::operator()()
boxed_call0(H, h) == IF IsKind(H, h, "eff_fn") THEN ThunkBody(H, h) ELSE UBRes

\* boxed_r::operator()()
boxed_r_call0(H, s) ==
  IF ~IsKind(H, s, "slot") THEN UBRes
  ELSE LET b == H[s].inner
       IN  IF IsKind(H, b, "eff_fn") THEN ThunkBody(H, b) ELSE UBRes

\* boxed_r::operator const boxed&()
boxed_r_read(H, s) == H[s].inner

\* Fault model: an assignment that retains the new value but leaves the slot as it was
boxed_r_assign_lost(H, s, v) == Rebind(H, 0, v)

\* boxed_r::operator=(T&& right): b = right on the slot's boxed
boxed_r_assign(H, s, v) == [Rebind(H, H[s].inner, v) EXCEPT ![s].inner = v]


\* ================================================================ Spec
\* The program before its first statement: nothing allocated, every local
\* variable empty, the build mode fixed.
IdleInt == n64 = <<0, 0, 0, 0>> /\ ctor = "long" /\ res = [st |-> "none", v |-> 0]
IdleConc ==
  /\ ccnt = 0
  /\ cfreed = 0
  /\ own = [t \in 1..MaxThreads |-> 0]
  /\ tpc = [t \in 1..MaxThreads |-> "run"]
IdleHeap ==
  /\ heap = [o \in Objs |-> EmptyObj]
  /\ root = [i \in Roots |-> 0]
  /\ rroot = [i \in Refs |-> 0]
  /\ ret = Ret("init", "ok", 0, 0, 0, 0)

Init == IdleHeap /\ IdleInt /\ IdleConc /\ mode \in Modes

Frame == UNCHANGED <<intVars, concVars>>

\* boxed v(p);  or  boxed v = box<T>(p);  for a scalar p
construct(d, p) ==
  /\ root[d] = 0 /\ HasFree(heap)
  /\ heap' = Alloc(heap, box(p))
  /\ root' = [root EXCEPT ![d] = NextFree(heap)]
  /\ ret' = Ret("construct", "ok", d, 0, p.num, NextFree(heap))
  /\ UNCHANGED rroot /\ Frame

RECURSIVE AddRefAll(_, _)
AddRefAll(H, s) == IF s = <<>> THEN H ELSE AddRefAll(AddRef(H, Head(s)), Tail(s))

\* The deque array_t{root[l[1]], ...}: copies of the named variables.
ArrayInput(l) == [i \in 1..Len(l) |-> root[l[i]]]
ArrayInputs(max) == UNION {[1..n -> Roots] : n \in 0..max}

\* boxed v(array_t{...});  each element is a copy of a handle
construct_array(d, l) ==
  /\ root[d] = 0 /\ HasFree(heap)
  /\ heap' = AddRefAll(Alloc(heap, boxed_array(ArrayInput(l))), ArrayInput(l))
  /\ root' = [root EXCEPT ![d] = NextFree(heap)]
  /\ ret' = Ret("construct_array", "ok", d, 0, Len(l), NextFree(heap))
  /\ UNCHANGED rroot /\ Frame

\* The dict_t{} or dict_t{{k, root[i]}} the client builds.
DictInput(e) == IF e.n = 0 THEN <<>> ELSE <<[k |-> e.k, h |-> root[e.i]]>>
DictInputs(ks) == {[n |-> 0, k |-> "x", i |-> 1]} \cup {[n |-> 1, k |-> k, i |-> i] : k \in ks, i \in Roots}
DictHandles(m) == [i \in 1..Len(m) |-> m[i].h]

\* boxed v(dict_t{...});
construct_dict(d, e) ==
  /\ root[d] = 0 /\ HasFree(heap)
  /\ heap' = AddRefAll(Alloc(heap, boxed_dict(DictInput(e))), DictHandles(DictInput(e)))
  /\ root' = [root EXCEPT ![d] = NextFree(heap)]
  /\ ret' = Ret("construct_dict", "ok", d, 0, e.n, NextFree(heap))
  /\ UNCHANGED rroot /\ Frame

\* boxed v([](const boxed& n) {...});  the lambda add1
construct_fn(d) ==
  /\ root[d] = 0 /\ HasFree(heap)
  /\ heap' = Alloc(heap, boxed_fn("add1", 0))
  /\ root' = [root EXCEPT ![d] = NextFree(heap)]
  /\ ret' = Ret("construct_fn", "ok", d, 0, 0, NextFree(heap))
  /\ UNCHANGED rroot /\ Frame

\* boxed v([r](const boxed& n) {...});  the lambda rec, its closure holding
\* a copy of the boxed_r variable r
construct_rec(d, r) ==
  /\ root[d] = 0 /\ rroot[r] # 0 /\ HasFree(heap)
  /\ heap' = AddRef(Alloc(heap, boxed_fn("rec", rroot[r])), rroot[r])
  /\ root' = [root EXCEPT ![d] = NextFree(heap)]
  /\ ret' = Ret("construct_rec", "ok", d, r, 0, NextFree(heap))
  /\ UNCHANGED rroot /\ Frame

\* boxed v([c]() { return c; });  the thunk get, its closure holding a copy
\* of the boxed variable i
construct_eff(d, i) ==
  /\ root[d] = 0 /\ root[i] # 0 /\ HasFree(heap)
  /\ heap' = AddRef(Alloc(heap, boxed_eff_fn("get", root[i])), root[i])
  /\ root' = [root EXCEPT ![d] = NextFree(heap)]
  /\ ret' = Ret("construct_eff", "ok", d, i, 0, NextFree(heap))
  /\ UNCHANGED rroot /\ Frame

\* boxed_r r;
construct_ref(r) ==
  /\ rroot[r] = 0 /\ HasFree(heap)
  /\ heap' = Alloc(heap, boxed_r_new)
  /\ rroot' = [rroot EXCEPT ![r] = NextFree(heap)]
  /\ ret' = Ret("construct_ref", "ok", r, 0, 0, NextFree(heap))
  /\ UNCHANGED root /\ Frame

\* boxed j = i;  (copy construction)
copy(i, j) ==
  /\ root[i] # 0 /\ root[j] = 0
  /\ heap' = AddRef(heap, root[i])
  /\ root' = [root EXCEPT ![j] = root[i]]
  /\ ret' = Ret("copy", "ok", i, j, 0, root[i])
  /\ UNCHANGED rroot /\ Frame

\* boxed_r j = i;
copy_ref(i, j) ==
  /\ rroot[i] # 0 /\ rroot[j] = 0
  /\ heap' = AddRef(heap, rroot[i])
  /\ rroot' = [rroot EXCEPT ![j] = rroot[i]]
  /\ ret' = Ret("copy_ref", "ok", i, j, 0, rroot[i])
  /\ UNCHANGED root /\ Frame

\* the boxed variable i goes out of scope
destroy(i) ==
  /\ root[i] # 0
  /\ heap' = Release(heap, root[i])
  /\ root' = [root EXCEPT ![i] = 0]
  /\ ret' = Ret("destroy", "ok", i, 0, 0, root[i])
  /\ UNCHANGED rroot /\ Frame

\* the boxed_r variable r goes out of scope
destroy_ref(r) ==
  /\ rroot[r] # 0
  /\ heap' = Release(heap, rroot[r])
  /\ rroot' = [rroot EXCEPT ![r] = 0]
  /\ ret' = Ret("destroy_ref", "ok", r, 0, 0, rroot[r])
  /\ UNCHANGED root /\ Frame

\* r = i;  (boxed_r::operator= with a boxed on the right)
assign_ref(r, i) ==
  /\ rroot[r] # 0
  /\ heap' = boxed_r_assign(heap, rroot[r], root[i])
  /\ ret' = Ret("assign_ref", "ok", r, i, 0, root[i])
  /\ UNCHANGED <<root, rroot>> /\ Frame

\* boxed d = r;  (the conversion to const boxed&, then a copy)
read_ref(r, d) ==
  /\ rroot[r] # 0 /\ root[d] = 0
  /\ heap' = AddRef(heap, boxed_r_read(heap, rroot[r]))
  /\ root' = [root EXCEPT ![d] = boxed_r_read(heap, rroot[r])]
  /\ ret' = Ret("read_ref", "ok", r, d, 0, boxed_r_read(heap, rroot[r]))
  /\ UNCHANGED rroot /\ Frame

IndexRet(op, i, idx, r) ==
  IF r.st = "ub" THEN UBRets(op, i, idx) ELSE {Ret(op, r.st, i, idx, 0, r.h)}

\* const boxed& a = i;  a[idx];
read_index_const(i, idx) ==
  /\ IsKind(heap, root[i], "array")
  /\ ret' \in IndexRet("index_const", i, idx, index_const(heap, root[i], idx, mode))
  /\ UNCHANGED <<heap, root, rroot>> /\ Frame

\* i[idx];  on a non-const boxed
read_index_mut(i, idx) ==
  /\ IsKind(heap, root[i], "array")
  /\ ret' \in IndexRet("index_mut", i, idx, index_mut(heap, root[i], idx, mode))
  /\ UNCHANGED <<heap, root, rroot>> /\ Frame

\* i[idx] = j;  the write goes through the reference the mutable form
\* returns.  An index out of range throws in the debug build; in the
\* release build the compiler emits no such write.
write_index(i, idx, j) ==
  /\ IsKind(heap, root[i], "array")
  /\ LET r == index_mut(heap, root[i], idx, mode)
     IN  /\ r.st # "ub"
         /\ IF r.st = "ok"
            THEN heap' = [Rebind(heap, r.h, root[j]) EXCEPT ![root[i]].elems[idx + 1] = root[j]]
            ELSE heap' = heap
         /\ ret' = Ret("write_index", r.st, i, idx, j, r.h)
  /\ UNCHANGED <<root, rroot>> /\ Frame

\* array_length(i)
length(i) ==
  /\ IsKind(heap, root[i], "array")
  /\ ret' = Ret("array_length", "ok", i, 0, array_length(heap, root[i]), 0)
  /\ UNCHANGED <<heap, root, rroot>> /\ Frame

KeyNo(k) == IF k = "x" THEN 1 ELSE 2

\* const boxed& a = i;  a[k];
read_key_const(i, k) ==
  /\ IsKind(heap, root[i], "dict")
  /\ LET h == index_key_const(heap, root[i], k)
     IN  ret' \in IF h < 0 THEN UBRets("key_const", i, KeyNo(k))
                  ELSE {Ret("key_const", "ok", i, KeyNo(k), 0, h)}
  /\ UNCHANGED <<heap, root, rroot>> /\ Frame

\* i[k];  on a non-const boxed
read_key_mut(i, k) ==
  /\ IsKind(heap, root[i], "dict")
  /\ heap' = index_key_mut(heap, root[i], k)
  /\ ret' = Ret("key_mut", "ok", i, KeyNo(k), 0, index_key_const(heap', root[i], k))
  /\ UNCHANGED <<root, rroot>> /\ Frame

\* i[k] = j;
write_key(i, k, j) ==
  /\ IsKind(heap, root[i], "dict")
  /\ LET H1 == index_key_mut(heap, root[i], k)
         pos == DictFind(unbox_dict(H1, root[i]), k)
         old == unbox_dict(H1, root[i])[pos].h
     IN  /\ pos # 0
         /\ heap' = [Rebind(H1, old, root[j]) EXCEPT ![root[i]].ents[pos].h = root[j]]
  /\ ret' = Ret("write_key", "ok", i, KeyNo(k), j, root[j])
  /\ UNCHANGED <<root, rroot>> /\ Frame

CallRet(op, x, y, r) ==
  IF r.st = "ub" THEN UBRets(op, x, y) ELSE {Ret(op, "ok", x, y, r.v, r.h)}

\* i(a);  the returned temporary is read and dies with the full expression
call(i, a) ==
  /\ root[i] # 0 /\ IsKind(heap, root[a], "int")
  /\ ret' \in CallRet("call", i, a, boxed_call(heap, root[i], unbox_int(heap, root[a])))
  /\ UNCHANGED <<heap, root, rroot>> /\ Frame

\* r(a);
call_ref(r, a) ==
  /\ rroot[r] # 0 /\ IsKind(heap, root[a], "int")
  /\ ret' \in CallRet("call_ref", r, a, boxed_r_call(heap, rroot[r], unbox_int(heap, root[a])))
  /\ UNCHANGED <<heap, root, rroot>> /\ Frame

\* i();
call0(i) ==
  /\ root[i] # 0
  /\ ret' \in CallRet("call0", i, 0, boxed_call0(heap, root[i]))
  /\ UNCHANGED <<heap, root, rroot>> /\ Frame

\* r();
call_ref0(r) ==
  /\ rroot[r] # 0
  /\ ret' \in CallRet("call_ref0", r, 0, boxed_r_call0(heap, rroot[r]))
  /\ UNCHANGED <<heap, root, rroot>> /\ Frame

\* Programs that build, share, rebind and drop values.
Next ==
  \/ \E d \in Roots, p \in IntInputs({41}) : construct(d, p)
  \/ \E d \in Roots, l \in ArrayInputs(MaxElems) : construct_array(d, l)
  \/ \E d \in Roots, e \in DictInputs({"x"}) : construct_dict(d, e)
  \/ \E d \in Roots : construct_fn(d)
  \/ \E d \in Roots, r \in Refs : construct_rec(d, r)
  \/ \E d \in Roots, i \in Roots : construct_eff(d, i)
  \/ \E r \in Refs : construct_ref(r)
  \/ \E i \in Roots, j \in Roots : copy(i, j)
  \/ \E i \in Refs, j \in Refs : copy_ref(i, j)
  \/ \E i \in Roots : destroy(i)
  \/ \E r \in Refs : destroy_ref(r)
  \/ \E r \in Refs, i \in Roots : assign_ref(r, i)
  \/ \E r \in Refs, d \in Roots : read_ref(r, d)
  \/ \E i \in Roots, idx \in 0..MaxElems, j \in Roots : write_index(i, idx, j)
  \/ \E i \in Roots, j \in Roots : write_key(i, "x", j)

Spec == Init /\ [][Next]_vars


Indexes == (0 - 1)..MaxLen

\* Programs that index arrays: variable 1 holds the array, variable 2 an int.
NextIndex ==
  \/ construct(2, [kind |-> "int", num |-> 41, text |-> ""])
  \/ \E l \in ArrayInputs(MaxLen) : construct_array(1, l)
  \/ \E i \in Roots : destroy(i)
  \/ \E idx \in Indexes : read_index_const(1, idx)
  \/ \E idx \in Indexes : read_index_mut(1, idx)
  \/ \E idx \in Indexes, j \in Roots : write_index(1, idx, j)
  \/ length(1)

SpecIndex == Init /\ [][NextIndex]_vars

\* Programs that index dicts: variable 1 holds the dict, variable 2 an int.
NextDict ==
  \/ construct(2, [kind |-> "int", num |-> 41, text |-> ""])
  \/ \E e \in DictInputs(Keys) : construct_dict(1, e)
  \/ \E i \in Roots : destroy(i)
  \/ \E k \in Keys : read_key_const(1, k)
  \/ \E k \in Keys : read_key_mut(1, k)
  \/ \E k \in Keys, j \in Roots : write_key(1, k, j)

SpecDict == Init /\ [][NextDict]_vars

\* Programs that wrap and invoke callables, directly and through ForwardRefs.
NextCall ==
  \/ \E d \in Roots, p \in IntInputs(IntVals) : construct(d, p)
  \/ \E d \in Roots : construct_fn(d)
  \/ \E d \in Roots, r \in Refs : construct_rec(d, r)
  \/ \E d \in Roots, i \in Roots : construct_eff(d, i)
  \/ \E r \in Refs : construct_ref(r)
  \/ \E i \in Refs, j \in Refs : copy_ref(i, j)
  \/ \E i \in Roots : destroy(i)
  \/ \E r \in Refs : destroy_ref(r)
  \/ \E r \in Refs, i \in Roots : assign_ref(r, i)
  \/ \E i \in Roots, a \in Roots : call(i, a)
  \/ \E r \in Refs, a \in Roots : call_ref(r, a)
  \/ \E i \in Roots : call0(i)
  \/ \E r \in Refs : call_ref0(r)

SpecCall == Init /\ [][NextCall]_vars

\* Programs that box payloads of every kind and copy the values.
NextBox ==
  \/ \E d \in Roots, p \in ScalarInputs : construct(d, p)
  \/ \E d \in Roots, l \in ArrayInputs(MaxElems) : construct_array(d, l)
  \/ \E d \in Roots, e \in DictInputs(Keys) : construct_dict(d, e)
  \/ \E i \in Roots, j \in Roots : copy(i, j)
  \/ \E i \in Roots : destroy(i)

SpecBox == Init /\ [][NextBox]_vars

\* ============================================================= SpecInt
\* A 64 bit native integer is four 16 bit limbs, most significant first
\* (two's complement for long); the int payload is an integer of TLA+.
LimbBase == 2 ^ 16
HalfLimb == 2 ^ 15
LimbSamples == {0, 1, HalfLimb - 1, HalfLimb, LimbBase - 1}
Longs == {<<a, b, c, d>> : a \in LimbSamples, b \in LimbSamples, c \in LimbSamples, d \in LimbSamples}

\* std::numeric_limits<int>::min() and max(), converted to 64 bits
IntMin64 == <<LimbBase - 1, LimbBase - 1, HalfLimb, 0>>
IntMax64 == <<0, 0, HalfLimb - 1, LimbBase - 1>>

\* static_cast<int>(n): the low 32 bits, read as two's complement
static_cast_int(n) ==
  IF n[3] >= HalfLimb THEN (n[3] - LimbBase) * LimbBase + n[4] ELSE n[3] * LimbBase + n[4]

\* a < b on unsigned long
LessUnsigned(a, b) ==
  \E i \in 1..4 : a[i] < b[i] /\ \A j \in 1..(i - 1) : a[j] = b[j]

\* a < b on long: the top limb carries the sign
LessSigned(a, b) ==
  LET top(x) == IF x[1] >= HalfLimb THEN x[1] - LimbBase ELSE x[1]
  IN  \/ top(a) < top(b)
      \/ top(a) = top(b) /\ LessUnsigned(a, b)

\* Fault model: the upper bound alone is checked
boxed_long_upper_only(n, md) ==
  IF md = "debug" /\ LessSigned(IntMax64, n)
  THEN [st |-> "throw", v |-> 0]
  ELSE [st |-> "ok", v |-> static_cast_int(n)]

\* boxed(const long n): make_shared<int>(static_cast<int>(n)), then in the
\* debug build the range check that throws std::runtime_error
boxed_long(n, md) ==
  IF md = "debug" /\ (LessSigned(n, IntMin64) \/ LessSigned(IntMax64, n))
  THEN [st |-> "throw", v |-> 0]
  ELSE [st |-> "ok", v |-> static_cast_int(n)]

\* boxed(const unsigned long n)
boxed_ulong(n, md) ==
  IF md = "debug" /\ LessUnsigned(IntMax64, n)
  THEN [st |-> "throw", v |-> 0]
  ELSE [st |-> "ok", v |-> static_cast_int(n)]

InitInt ==
  /\ IdleHeap /\ IdleConc
  /\ n64 \in Longs /\ ctor \in {"long", "ulong"} /\ mode \in Modes
  /\ res = [st |-> "none", v |-> 0]

\* boxed v(n);  with n a long
construct_long ==
  /\ ctor = "long" /\ res.st = "none"
  /\ res' = boxed_long(n64, mode)
  /\ UNCHANGED <<heapVars, concVars, n64, ctor, mode>>

\* boxed v(n);  with n an unsigned long
construct_ulong ==
  /\ ctor = "ulong" /\ res.st = "none"
  /\ res' = boxed_ulong(n64, mode)
  /\ UNCHANGED <<heapVars, concVars, n64, ctor, mode>>

NextInt == construct_long \/ construct_ulong

SpecInt == InitInt /\ [][NextInt]_vars

\* ============================================================ SpecConc
\* One payload and its control block, shared by threads that each own own[t]
\* handles to it.  The use count is a std::atomic: an increment or decrement
\* and the thread's bookkeeping of its own handle are one step; the thread
\* whose decrement took the count from 1 to 0 then disposes of the payload.
Threads == 1..MaxThreads

RECURSIVE SumOwn(_, _)
SumOwn(f, n) == IF n = 0 THEN 0 ELSE f[n] + SumOwn(f, n - 1)

\* Fault model: the owner of the next to last handle also takes itself for the last
WasLastOrNext(old) == old <= 2

\* _M_release: use_count.fetch_sub(1) == 1
WasLast(old) == old = 1

InitConc ==
  /\ IdleHeap /\ IdleInt /\ mode = "release"
  /\ own = [t \in Threads |-> 1]
  /\ ccnt = MaxThreads
  /\ cfreed = 0
  /\ tpc = [t \in Threads |-> "run"]

\* thread t copies one of its handles
thread_copy(t) ==
  /\ tpc[t] = "run" /\ own[t] > 0 /\ own[t] < MaxOwn
  /\ ccnt' = ccnt + 1
  /\ own' = [own EXCEPT ![t] = @ + 1]
  /\ UNCHANGED <<heapVars, intVars, cfreed, tpc>>

\* thread t destroys one of its handles
thread_destroy(t) ==
  /\ tpc[t] = "run" /\ own[t] > 0
  /\ ccnt' = ccnt - 1
  /\ own' = [own EXCEPT ![t] = @ - 1]
  /\ tpc' = [tpc EXCEPT ![t] = IF WasLast(ccnt) THEN "dispose" ELSE "run"]
  /\ UNCHANGED <<heapVars, intVars, cfreed>>

\* thread t, having dropped the last handle, deallocates the payload
thread_dispose(t) ==
  /\ tpc[t] = "dispose"
  /\ cfreed' = cfreed + 1
  /\ tpc' = [tpc EXCEPT ![t] = "disposed"]
  /\ UNCHANGED <<heapVars, intVars, ccnt, own>>

NextConc ==
  \/ \E t \in Threads : thread_copy(t)
  \/ \E t \in Threads : thread_destroy(t)
  \/ \E t \in Threads : thread_dispose(t)

SpecConc == InitConc /\ [][NextConc]_vars

\* ------------------------------------------------ handles and reachability
RECURSIVE PayloadHandles(_, _)
PayloadHandles(H, n) ==
  IF n = 0 THEN <<>>
  ELSE PayloadHandles(H, n - 1) \o (IF H[n].st = "live" THEN Children(H[n]) ELSE <<>>)

\* Every handle in existence: the variables in scope and the handles that
\* live payloads hold.
AllHandles == root \o rroot \o PayloadHandles(heap, MaxObj)
HandleCount(o) == CountIn(AllHandles, o)

Edges(H, o) == IF H[o].st = "live" THEN {Children(H[o])[i] : i \in DOMAIN Children(H[o])} \ {0} ELSE {}
RECURSIVE Closure(_, _, _)
Closure(H, S, n) == IF n = 0 THEN S ELSE Closure(H, S \cup UNION {Edges(H, o) : o \in S}, n - 1)
OnCycle(H, o) == H[o].st = "live" /\ o \in Closure(H, Edges(H, o), MaxObj)
RootSet == ({root[i] : i \in Roots} \cup {rroot[i] : i \in Refs}) \ {0}
RootReach(o) == o \in Closure(heap, RootSet, MaxObj)

\* ================================================================ claims
\* C1: a payload is deallocated exactly once, at the step its last handle
\* goes: while it is allocated its use count is the number of handles to it
\* (in variables, ForwardRef slots, arrays, dicts and closures) and is not
\* zero; once deallocated no handle refers to it and it was freed once.
C1_FreedExactlyOnce ==
  \A o \in Objs :
    /\ heap[o].st = "live" =>
         heap[o].cnt = HandleCount(o) /\ heap[o].cnt > 0 /\ heap[o].frees = 0
    /\ heap[o].st = "freed" => HandleCount(o) = 0 /\ heap[o].frees = 1
    /\ heap[o].st = "unalloc" => HandleCount(o) = 0 /\ heap[o].frees = 0

\* a destroy has just freed a container and, through it, the payload that
\* only the container still referred to
C1_Witness ==
  /\ ret.op = "destroy" /\ heap[ret.h].st = "freed"
  /\ \E p \in Objs : p # ret.h /\ heap[p].st = "freed"
  /\ \E q \in Objs : heap[q].st = "live"

\* The handles to ForwardRef slots: variables and closure captures.
RefCopies(H, rr) ==
  {<<"var", r>> : r \in {r \in Refs : rr[r] # 0}}
  \cup {<<"cap", f>> : f \in {f \in Objs : IsKind(H, f, "fn") /\ H[f].code = "rec"}}
CopyTarget(H, rr, c) == IF c[1] = "var" THEN rr[c[2]] ELSE H[c[2]].cap

C2_Step ==
  /\ ret'.op = "construct_ref" => boxed_r_read(heap', rroot'[ret'.x]) = 0
  /\ ret'.op = "assign_ref" =>
       /\ \A c \in RefCopies(heap, rroot) \cap RefCopies(heap', rroot') :
            CopyTarget(heap', rroot', c) = CopyTarget(heap, rroot, c)
       /\ \A c \in RefCopies(heap', rroot') :
            CopyTarget(heap', rroot', c) = rroot[ret'.x]
              => boxed_r_read(heap', CopyTarget(heap', rroot', c)) = root[ret'.y]
       /\ \A s \in Objs : s # rroot[ret'.x] /\ IsKind(heap, s, "slot") /\ IsKind(heap', s, "slot")
            => boxed_r_read(heap', s) = boxed_r_read(heap, s)
  /\ ret'.op # "assign_ref" =>
       \A s \in Objs : IsKind(heap, s, "slot") /\ IsKind(heap', s, "slot")
            => boxed_r_read(heap', s) = boxed_r_read(heap, s)

\* C2: a ForwardRef starts empty; an assignment of v through one copy makes
\* every copy (variables and closure captures alike) read v, keeps every copy
\* on the same slot, and the slot reads v until the next assignment to it.
C2_SharedSlot == [][C2_Step]_vars

\* two ForwardRef variables and a closure share one slot, and the closure
\* itself has just been assigned through it
C2_Witness ==
  /\ ret.op = "assign_ref" /\ rroot[1] # 0 /\ rroot[1] = rroot[2]
  /\ IsKind(heap, boxed_r_read(heap, rroot[1]), "fn")
  /\ heap[boxed_r_read(heap, rroot[1])].cap = rroot[1]

\* The payload kind a Value cell holds.
CellKind(H, h) == IF h = 0 THEN "empty" ELSE H[h].kind

\* The Value cells inside payload o (elements, entries, slot) that exist
\* before and after a step hold the same kind, except the cells in Written.
CellsKeep(o, Written) ==
  /\ \A i \in DOMAIN heap[o].elems \cap DOMAIN heap'[o].elems :
       <<o, "elem", i>> \notin Written
         => CellKind(heap', heap'[o].elems[i]) = CellKind(heap, heap[o].elems[i])
  /\ \A i \in DOMAIN heap[o].ents \cap DOMAIN heap'[o].ents :
       <<o, "ent", i>> \notin Written
         => CellKind(heap', heap'[o].ents[i].h) = CellKind(heap, heap[o].ents[i].h)
  /\ <<o, "slot", 1>> \notin Written
       => CellKind(heap', heap'[o].inner) = CellKind(heap, heap[o].inner)

BothLive(o) == heap[o].st = "live" /\ heap'[o].st = "live"

\* C3 as claimed: no operation changes the payload kind (or emptiness) a
\* Value cell holds.
C3_CellKindFixed == [][\A o \in Objs : BothLive(o) => CellsKeep(o, {})]_vars

\* The cell the step wrote through a ForwardRef or a mutable index reference.
WrittenCell ==
  IF ret'.op = "assign_ref" THEN {<<rroot[ret'.x], "slot", 1>>}
  ELSE IF ret'.op = "write_index" /\ ret'.st = "ok" THEN {<<root[ret'.x], "elem", ret'.y + 1>>}
  ELSE IF ret'.op = "write_key"
    THEN {<<root[ret'.x], "ent", DictFind(heap'[root[ret'.x]].ents, IF ret'.y = 1 THEN "x" ELSE "y")>>}
  ELSE {}

\* C3 amended: a payload keeps its kind while allocated, and a Value cell
\* keeps the kind it holds under every operation but an assignment through a
\* ForwardRef or a write through a mutable index reference, which rebind
\* exactly the cell written.
C3_PayloadKindFixed ==
  [][\A o \in Objs : BothLive(o) => heap'[o].kind = heap[o].kind /\ CellsKeep(o, WrittenCell)]_vars

\* a slot that was empty has just been assigned a function
C3_Witness ==
  /\ ret.op = "assign_ref" /\ IsKind(heap, boxed_r_read(heap, rroot[ret.x]), "fn")

C10_Step ==
  /\ ret'.op \in {"destroy", "destroy_ref"} =>
       \A o \in Objs : OnCycle(heap, o) => heap'[o].st = "live" /\ heap'[o].cnt > 0
  /\ \A o \in Objs : OnCycle(heap, o) /\ ~RootReach(o) => heap'[o] = heap[o]

\* C10: destroying a handle held in a variable never deallocates a payload
\* that lies on a reference cycle, and a cycle no variable reaches stays
\* allocated, untouched, under every later operation.
C10_CyclesLeak == [][C10_Step]_vars

\* no variable holds anything, and both an array that contains itself and a
\* slot whose function captured the slot's ForwardRef are still allocated
C10_Witness ==
  /\ RootSet = {}
  /\ \E a \in Objs : IsKind(heap, a, "array") /\ OnCycle(heap, a)
  /\ \E f \in Objs : IsKind(heap, f, "fn") /\ OnCycle(heap, f) /\ IsKind(heap, heap[f].cap, "slot")



\* ------------------------------------------------------------ round trip
Matches(H, h, p) ==
  CASE p.kind = "int" -> unbox_int(H, h) = p.num
    [] p.kind = "double" -> unbox_double(H, h) = p.num
    [] p.kind = "bool" -> unbox_bool(H, h) = (p.num = 1)
    [] p.kind = "string" -> unbox_string(H, h) = p.text

Unboxed(H, h) ==
  <<unbox_int(H, h), unbox_bool(H, h), unbox_string(H, h), unbox_array(H, h), unbox_dict(H, h)>>

C5_Step ==
  /\ ret'.op = "construct" =>
       \A d \in Roots, p \in ScalarInputs : construct(d, p) => Matches(heap', root'[d], p)
  /\ ret'.op = "construct_array" =>
       \A d \in Roots, l \in ArrayInputs(MaxElems) :
          construct_array(d, l) => unbox_array(heap', root'[d]) = ArrayInput(l)
  /\ ret'.op = "construct_dict" =>
       \A d \in Roots, e \in DictInputs(Keys) :
          construct_dict(d, e) => unbox_dict(heap', root'[d]) = DictInput(e)
  /\ ret'.op = "copy" =>
       /\ heap'[root'[ret'.y]].kind = heap[root[ret'.x]].kind
       /\ Unboxed(heap', root'[ret'.y]) = Unboxed(heap, root[ret'.x])
       /\ Unboxed(heap', root'[ret'.x]) = Unboxed(heap, root[ret'.x])

\* C5: a Value constructed from x unboxes, with the matching payload type,
\* to x (int, double, bool, string, array, dict), and so does a copy of it.
C5_RoundTrip == [][C5_Step]_vars

\* a copy has just been made of a Value that holds the string "ab"
C5_Witness ==
  /\ ret.op = "copy" /\ IsKind(heap, root[ret.y], "string")
  /\ unbox_string(heap, root[ret.y]) = "ab" /\ root[ret.x] = root[ret.y]

\* -------------------------------------------------------------- indexing
C6_Step ==
  LET a == root[ret'.x]
      n == Len(heap[a].elems)
      inside == 0 <= ret'.y /\ ret'.y < n
  IN  /\ ret'.op = "construct_array" =>
           \A l \in ArrayInputs(MaxLen) :
              construct_array(ret'.x, l) =>
                 /\ array_length(heap', root'[ret'.x]) = Len(l)
                 /\ \A i \in 1..Len(l) :
                      /\ index_const(heap', root'[ret'.x], i - 1, mode) = [st |-> "ok", h |-> root[l[i]]]
                      /\ index_mut(heap', root'[ret'.x], i - 1, mode) = [st |-> "ok", h |-> root[l[i]]]
      /\ ret'.op = "array_length" => ret'.v = n
      /\ ret'.op \in {"index_const", "index_mut"} /\ inside =>
           ret'.st = "ok" /\ ret'.h = heap[a].elems[ret'.y + 1] /\ heap' = heap
      /\ ret'.op = "write_index" /\ inside =>
           /\ ret'.st = "ok" /\ Len(heap'[a].elems) = n
           /\ \A i \in 1..n : heap'[a].elems[i] = IF i = ret'.y + 1 THEN root[ret'.v] ELSE heap[a].elems[i]
      /\ ret'.op \in {"index_const", "index_mut", "write_index"} /\ ~inside /\ mode = "debug" =>
           ret'.st = "throw" /\ heap' = heap

\* C6: array_length is the number of elements; an index in 0..n-1 gives the
\* element at that position, in the const and the mutable form; in the debug
\* build any other index, a negative one included, throws and leaves the
\* array as it was.
C6_Positional == [][C6_Step]_vars

\* the mutable form has just thrown on index -1 of an array of three
C6_Witness ==
  /\ ret.op = "index_mut" /\ ret.st = "throw" /\ ret.y < 0
  /\ array_length(heap, root[ret.x]) = 3 /\ mode = "debug"

KeyOf(y) == IF y = 1 THEN "x" ELSE "y"
HasKey(m, k) == \E i \in DOMAIN m : m[i].k = k
UniqueKeys(m) == \A i \in DOMAIN m, j \in DOMAIN m : m[i].k = m[j].k => i = j

C7_Step ==
  LET d == root[ret'.x]
      k == KeyOf(ret'.y)
      m == heap[d].ents
      m2 == heap'[d].ents
  IN  /\ \A o \in Objs : UniqueKeys(heap'[o].ents)
      /\ ret'.op \in {"key_const", "key_mut"} /\ HasKey(m, k) =>
           /\ ret'.st = "ok" /\ heap' = heap
           /\ \E i \in DOMAIN m : m[i].k = k /\ m[i].h = ret'.h
      /\ ret'.op = "key_mut" /\ ~HasKey(m, k) =>
           /\ ret'.st = "ok" /\ ret'.h = 0
           /\ m2 = Append(m, [k |-> k, h |-> 0])
           /\ \A o \in Objs : o # d => heap'[o] = heap[o]
           /\ heap' = [heap EXCEPT ![d].ents = m2]
      /\ ret'.op = "write_key" =>
           /\ \E i \in DOMAIN m2 : m2[i] = [k |-> k, h |-> root[ret'.v]]
           /\ \A i \in DOMAIN m : m[i].k # k => m2[i] = m[i]
           /\ Len(m2) = IF HasKey(m, k) THEN Len(m) ELSE Len(m) + 1

\* C7: a lookup of a present key, const or mutable, gives the Value stored
\* there and changes nothing; a mutable lookup of an absent key appends one
\* entry for it holding the empty Value and changes nothing else, a write
\* through the returned reference lands in that entry, and keys stay unique.
C7_Keyed == [][C7_Step]_vars

\* the mutable lookup of "y" has just inserted an empty entry behind x -> 41
C7_Witness ==
  /\ ret.op = "key_mut" /\ ret.y = 2 /\ IsKind(heap, root[ret.x], "dict")
  /\ Len(heap[root[ret.x]].ents) = 2
  /\ heap[root[ret.x]].ents[1].k = "x" /\ IsKind(heap, heap[root[ret.x]].ents[1].h, "int")
  /\ heap[root[ret.x]].ents[2] = [k |-> "y", h |-> 0]

\* ------------------------------------------------------------- invocation
\* f is the lambda rec and the ForwardRef it captured holds f itself
SelfRec(f) ==
  /\ IsKind(heap, f, "fn") /\ heap[f].code = "rec"
  /\ IsKind(heap, heap[f].cap, "slot") /\ heap[heap[f].cap].inner = f
IsAdd1(f) == IsKind(heap, f, "fn") /\ heap[f].code = "add1"
\* what rec computes when every recursive call reaches rec again
Triangle(k) == IF k <= 0 THEN 0 ELSE (k * (k + 1)) \div 2

\* C8: calling a Value gives what the wrapped callable gives (add1 on 41 is
\* 42, a thunk gives its result), calling a ForwardRef gives what calling
\* the Value assigned to it gives, and a callable that calls itself through
\* the ForwardRef it captured gets its own results back.
C8_Invocation ==
  LET arg == unbox_int(heap, root[ret.y])
      f == IF ret.op \in {"call", "call0"} THEN root[ret.x] ELSE boxed_r_read(heap, rroot[ret.x])
  IN  /\ ret.op \in {"call", "call_ref"} /\ IsAdd1(f) => ret.st = "ok" /\ ret.v = arg + 1
      /\ ret.op \in {"call", "call_ref"} /\ SelfRec(f) => ret.st = "ok" /\ ret.v = Triangle(arg)
      /\ ret.op = "call_ref" /\ IsKind(heap, f, "fn") /\ boxed_call(heap, f, arg).st = "ok" =>
           ret.st = "ok" /\ ret.v = boxed_call(heap, f, arg).v
      /\ ret.op \in {"call0", "call_ref0"} /\ IsKind(heap, f, "eff_fn") =>
           ret.st = "ok" /\ ret.h = heap[f].cap
      /\ ret.op = "call_ref0" /\ IsKind(heap, f, "eff_fn") => ret.h = boxed_call0(heap, f).h

\* rec, assigned to the ForwardRef it captured, has just been called through
\* that ForwardRef with 41
C8_Witness ==
  /\ ret.op = "call_ref" /\ SelfRec(boxed_r_read(heap, rroot[ret.x]))
  /\ unbox_int(heap, root[ret.y]) = 41 /\ ret.v = 861


\* ------------------------------------------------------------- narrowing
\* n lies in the range of int: its upper 33 bits are all equal
InInt32(n, c) ==
  \/ n[1] = 0 /\ n[2] = 0 /\ n[3] < HalfLimb
  \/ c = "long" /\ n[1] = LimbBase - 1 /\ n[2] = LimbBase - 1 /\ n[3] >= HalfLimb

\* the value of an n in the range of int
ValueOf(n) == IF n[1] = 0 THEN n[3] * LimbBase + n[4] ELSE (n[3] - LimbBase) * LimbBase + n[4]

\* v modulo 2^32, as two limbs
Low32(v) == <<(v \div LimbBase) % LimbBase, v % LimbBase>>

\* C4: from a long or unsigned long n in the range of int, construction
\* succeeds and the payload is n; from any other n the debug build throws
\* and the release build stores n modulo 2^32 read as a signed 32 bit int.
C4_Narrowing ==
  res.st # "none" =>
    IF InInt32(n64, ctor) THEN res.st = "ok" /\ res.v = ValueOf(n64)
    ELSE IF mode = "debug" THEN res.st = "throw"
    ELSE res.st = "ok" /\ Low32(res.v) = <<n64[3], n64[4]>>

\* the release build has just narrowed an out of range long whose low 32
\* bits are all ones to -1
C4_Witness ==
  /\ res.st = "ok" /\ mode = "release" /\ ctor = "long" /\ ~InInt32(n64, ctor)
  /\ n64 = <<LimbBase - 1, 0, LimbBase - 1, LimbBase - 1>> /\ res.v = 0 - 1

\* ----------------------------------------------------------- concurrency
\* C9: after every step the use count is the number of handles the threads
\* own; the payload is deallocated at most once, only when no handle is
\* left, by the one thread whose destroy took the last handle, and it is
\* never left allocated with no handle and nobody about to free it.
C9_AtomicCount ==
  /\ ccnt = SumOwn(own, MaxThreads)
  /\ cfreed <= 1
  /\ Cardinality({t \in Threads : tpc[t] # "run"}) <= 1
  /\ (\E t \in Threads : tpc[t] # "run") <=> ccnt = 0
  /\ cfreed = 1 <=> \E t \in Threads : tpc[t] = "disposed"

\* every handle is gone and one thread has deallocated the payload, after
\* some thread held MaxOwn handles
C9_Witness ==
  /\ cfreed = 1 /\ ccnt = 0 /\ tpc[MaxThreads] = "disposed"

====
